---- MODULE Spec2Model ----
(***************************************************************************)
(* Model of the streaming BMP decoder of M5StickC-PLUS-UI                  *)
(* (src/src/bmp_loader.py): BMPLoader._read_header, _read_palette,         *)
(* load_to_framebuffer and get_image_info, run against a byte file and a   *)
(* pixel surface that records every pixel-setter call.                     *)
(***************************************************************************)
EXTENDS Integers, Sequences, FiniteSets, TLC

VARIABLES
    file,         \* the bytes of the file named by filename
    fileChanged,  \* the file was shortened while the decode was running
    pc,           \* position of the call: idle, open, header, palette, clip, rows, info, done
    op,           \* "none", "load" (load_to_framebuffer) or "info" (get_image_info)
    args,         \* arguments of load_to_framebuffer
    loader,       \* the fields of the BMPLoader instance
    handleOpen,   \* the file object of the with-block is open
    pos,          \* position of the file object
    load_width,   \* local of load_to_framebuffer
    load_height,  \* local of load_to_framebuffer
    row,          \* next value of the row loop
    row_buffer,   \* local of load_to_framebuffer
    calls,        \* framebuffer.pixel calls made so far: <<fb_x, fb_y, color>>
    reads,        \* row reads made so far: <<row, file_pos, row_size, bytes read>>
    error,        \* exception raised inside the try block: none, ValueError, OSError
    result,       \* what the caller receives: pending, True, False, None, dict
    info,         \* the dictionary get_image_info returns
    codec,        \* one application of a colour or row-size function: input and outputs
    gfx,          \* the M5Graphics instance and the last call made on it
    music,        \* the MusicPlayer instance, its buzzer and the call in progress
    game          \* the DreidlGame instance: its button timer and the spin in progress

bmpVars == <<file, fileChanged, pc, op, args, loader, handleOpen, pos, load_width,
             load_height, row, row_buffer, calls, reads, error, result, info>>

\* the state outside the BMP decoder
nonBmp == <<codec, gfx, music, game>>

vars == <<bmpVars, nonBmp>>

(***************************************************************************)
(* Bounds of the model.                                                    *)
(***************************************************************************)
MaxDim == 2       \* image width and height range over 0..MaxDim
MaxClip == 2      \* supplied max_width / max_height range over -1..MaxClip
MaxDest == 1      \* dest_x ranges over 0..MaxDest
MaxRowWidth == 12 \* widths whose row size is computed range over 0..MaxRowWidth
MaxFactor == 8    \* shading factors range over -MaxFactor/den..MaxFactor/den, den in 1, 2, 4

(***************************************************************************)
(* Program constants.                                                      *)
(***************************************************************************)
BMP_SIGNATURE == 19778
BMP_HEADER_SIZE == 14
DIB_HEADER_SIZE == 40

Min(a, b) == IF a < b THEN a ELSE b

(***************************************************************************)
(* Bit operations on naturals, as Python's & and | compute them.           *)
(***************************************************************************)
RECURSIVE BitAnd(_, _)
BitAnd(a, b) ==
    IF a = 0 \/ b = 0 THEN 0
    ELSE (IF a % 2 = 1 /\ b % 2 = 1 THEN 1 ELSE 0) + 2 * BitAnd(a \div 2, b \div 2)

RECURSIVE BitOr(_, _)
BitOr(a, b) ==
    IF a = 0 THEN b
    ELSE IF b = 0 THEN a
    ELSE (IF a % 2 = 1 \/ b % 2 = 1 THEN 1 ELSE 0) + 2 * BitOr(a \div 2, b \div 2)

\* bmp_loader.rgb565: 5/6/5 packing followed by a swap of the two bytes
rgb565(r, g, b) ==
    LET color == BitOr(BitOr(BitAnd(r, 248) * 256, BitAnd(g, 252) * 8), b \div 8)
    IN  BitOr(BitAnd(color, 255) * 256, BitAnd(color \div 256, 255))

(***************************************************************************)
(* Little-endian fields, as struct.unpack('<HLHHL') / ('<LLLHHLLLLLL')     *)
(* decode them; o is the byte offset of the field in the buffer.           *)
(***************************************************************************)
U16(buf, o) == buf[o + 1] + 256 * buf[o + 2]
U32(buf, o) == buf[o + 1] + 256 * buf[o + 2] + 65536 * buf[o + 3] + 16777216 * buf[o + 4]

\* file.read(n) with the file object at position p
Read(f, p, n) == SubSeq(f, p + 1, Min(p + n, Len(f)))

(***************************************************************************)
(* The files offered to the decoder: a 14-byte file header, a 40-byte info *)
(* header, the palette of an 8-bit image and the bottom-up padded rows,    *)
(* laid out as _read_header and _read_palette parse them, and cut short at *)
(* the places where the decoder checks a length.                           *)
(***************************************************************************)
LE16(x) == <<x % 256, (x \div 256) % 256>>
LE32(x) == <<x % 256, (x \div 256) % 256, (x \div 65536) % 256, (x \div 16777216) % 256>>

FileHeaderBytes(sig, fsize, off) ==
    LE16(sig) \o LE32(fsize) \o LE16(0) \o LE16(0) \o LE32(off)

DibHeaderBytes(w, h, planes, bpp, comp, cu) ==
    LE32(DIB_HEADER_SIZE) \o LE32(w) \o LE32(h) \o LE16(planes) \o LE16(bpp) \o LE32(comp)
        \o LE32(0) \o LE32(2835) \o LE32(2835) \o LE32(cu) \o LE32(0)

\* stored palette entry i: blue, green, red, reserved
PaletteEntryBytes(i) ==
    <<(16 + 8 * i) % 256, (128 + 4 * i) % 256, (255 - 8 * i) % 256, 255>>

PaletteBytes(n) == [k \in 1..(4 * n) |-> PaletteEntryBytes((k - 1) \div 4)[((k - 1) % 4) + 1]]

\* pixel data patterns; ScenarioPattern holds the stored rows
\* [BGR(0,0,255), BGR(0,255,0)] and [BGR(255,0,0), BGR(255,255,255)] of a 2x2 image
ScenarioPattern == <<0, 0, 255, 0, 255, 0, 0, 0, 255, 0, 0, 255, 255, 255, 0, 0>>
MixedPattern == <<1, 0, 2, 8, 16, 1, 64, 128, 0, 1, 5, 7, 200, 1, 0, 33>>
Patterns == {ScenarioPattern, MixedPattern}

PixelBytes(pat, n) == [i \in 1..n |-> pat[((i - 1) % Len(pat)) + 1]]

RowSizeOf(w, bpp) == IF bpp = 8 THEN ((w + 3) \div 4) * 4 ELSE ((w * 3 + 3) \div 4) * 4
PaletteEntriesOf(bpp, cu) == IF bpp = 8 THEN (IF cu > 0 THEN cu ELSE 256) ELSE 0

MakeFile(sig, w, h, planes, bpp, comp, cu, pat) ==
    LET palLen == 4 * PaletteEntriesOf(bpp, cu)
        off == BMP_HEADER_SIZE + DIB_HEADER_SIZE + palLen
        pixLen == h * RowSizeOf(w, bpp)
    IN  FileHeaderBytes(sig, off + pixLen, off)
            \o DibHeaderBytes(w, h, planes, bpp, comp, cu)
            \o PaletteBytes(PaletteEntriesOf(bpp, cu))
            \o PixelBytes(pat, pixLen)

Signatures == {BMP_SIGNATURE, 19779}
Depths == {8, 16, 24}
Compressions == {0, 1}
PlaneCounts == {1, 2}
ColorsUsed == {0, 2, 257}
LongPalettes == {0, 257}     \* declared sizes that take a palette of 256 entries or more

Accepted(sig, planes, bpp, comp) ==
    sig = BMP_SIGNATURE /\ planes = 1 /\ bpp \in {8, 24} /\ comp = 0

\* every image size and pattern under an acceptable header with a short
\* palette, the largest image with every palette size, and one image under
\* every combination of header defects
FullFiles ==
    { MakeFile(BMP_SIGNATURE, w, h, 1, bpp, 0, cu, pat) :
        w \in 0..MaxDim, h \in 0..MaxDim, bpp \in {8, 24}, cu \in ColorsUsed \ LongPalettes,
        pat \in Patterns }
    \cup
    { MakeFile(BMP_SIGNATURE, MaxDim, MaxDim, 1, bpp, 0, cu, pat) :
        bpp \in {8, 24}, cu \in ColorsUsed, pat \in Patterns }
    \cup
    { MakeFile(v[1], MaxDim, MaxDim, v[2], v[3], v[4], cu, MixedPattern) :
        v \in { x \in Signatures \X PlaneCounts \X Depths \X Compressions :
                    ~Accepted(x[1], x[2], x[3], x[4]) },
        cu \in ColorsUsed }

\* lengths at which a file is cut: inside the file header, inside the info
\* header, inside the palette, inside the last stored row, and not at all
CutPoints(f) ==
    LET off == U32(f, 10)
    IN  { n \in {BMP_HEADER_SIZE - 1, BMP_HEADER_SIZE + DIB_HEADER_SIZE - 1,
                 off - 1, Len(f) - 1, Len(f)} : n >= 0 /\ n <= Len(f) }

Files == UNION { { SubSeq(f, 1, n) : n \in CutPoints(f) } : f \in FullFiles }

(***************************************************************************)
(* BMPLoader.__init__ and the state before any call.                       *)
(***************************************************************************)
NoPalette == <<>>     \* self.palette = None

NewLoader ==
    [width |-> 0, height |-> 0, bits_per_pixel |-> 0, data_offset |-> 0, file_size |-> 0,
     row_size |-> 0, palette |-> NoPalette, colors_used |-> 0]

Absent == <<>>        \* an argument left at its default None

NoArgs == [dest_x |-> 0, dest_y |-> 0, max_width |-> Absent, max_height |-> Absent,
           has_pixel |-> FALSE]

NoInfo == [width |-> 0, height |-> 0, bits_per_pixel |-> 0, file_size |-> 0, palette_colors |-> 0]

\* the rest of the program while the decoder is looked at: no colour function
\* applied, M5Graphics() and MusicPlayer() just constructed
NoCodec == [fn |-> "none"]

DISPLAY_WIDTH == 135
DISPLAY_HEIGHT == 240

\* the framebuffer cells the model tracks: the four corners of the display
Cells == {0, DISPLAY_WIDTH - 1} \X {0, DISPLAY_HEIGHT - 1}
\* a freshly allocated bytearray holds zeros
ZeroCells == [c \in Cells |-> 0]
NoCall == [op |-> "none"]

\* M5Graphics after __init__: display, buffer and framebuffer are None.  bufCells
\* are the cells of self.buffer, fbCells the cells of the buffer self.framebuffer
\* wraps, and shared says that the two are the same bytearray.
NewGraphics ==
    [initialized |-> FALSE, display |-> FALSE, buffer |-> FALSE, framebuffer |-> FALSE,
     shared |-> FALSE, bufCells |-> ZeroCells, fbCells |-> ZeroCells, last |-> NoCall]
NoSongCall == [fn |-> "none"]

\* MusicPlayer after __init__: the buzzer is silent and nothing is playing.  pc is
\* the position of the thread that runs a call of the player; call, p, notes, i,
\* note, dur and octave are that call's arguments and locals; played, unknown
\* and clock record the notes driven, the names rejected and the time slept;
\* stopLen is the number of notes begun or entered when stop() first ran during
\* the call, raised says that the call ended with an exception.
NewPlayer ==
    [playing |-> FALSE, duty |-> 0, freq |-> 0,
     pc |-> "idle", call |-> NoSongCall, stopped |-> FALSE,
     p |-> 0, kind |-> "str", notes |-> <<>>, i |-> 0, note |-> <<>>,
     dur |-> 0, octave |-> 0,
     played |-> <<>>, unknown |-> <<>>, clock |-> 0,
     stopLen |-> 0, raised |-> FALSE]

NoPress == [ret |-> "none"]

\* DreidlGame after __init__ (dreidel_game.py or 8-bit_dreidel.py): no press
\* accepted yet, no spin in progress.  now is the time since boot in ms, press
\* the last detect_button_press call, accepted the times of the accepted
\* presses; pc, thread, clock, phrase and note belong to the main thread's
\* spin_dreidel call, clock being the time it has slept since the spin began.
NewGame ==
    [variant |-> "dreidel_game", last_button_time |-> 0, now |-> 0, advances |-> 0,
     press |-> NoPress, accepted |-> <<>>,
     pc |-> "idle", thread |-> "none", clock |-> 0, phrase |-> 0, note |-> 0,
     fallback |-> 0, shown |-> FALSE]

Init ==
    /\ file \in Files
    /\ fileChanged = FALSE
    /\ pc = "idle"
    /\ op = "none"
    /\ args = NoArgs
    /\ loader = NewLoader
    /\ handleOpen = FALSE
    /\ pos = 0
    /\ load_width = 0
    /\ load_height = 0
    /\ row = 0
    /\ row_buffer = <<>>
    /\ calls = <<>>
    /\ reads = <<>>
    /\ error = "none"
    /\ result = "pending"
    /\ info = NoInfo
    /\ codec = NoCodec
    /\ gfx = NewGraphics
    /\ music = NewPlayer
    /\ game = NewGame

(***************************************************************************)
(* The caller: one call of load_to_framebuffer or of get_image_info.       *)
(***************************************************************************)
ClipArgs == {Absent} \cup { <<n>> : n \in (-1)..MaxClip }
DestPoints == { <<x, 2 * x>> : x \in 0..MaxDest }

CallLoad ==
    /\ pc = "idle"
    /\ \E d \in DestPoints, mw \in ClipArgs, mh \in ClipArgs, hp \in BOOLEAN :
          args' = [dest_x |-> d[1], dest_y |-> d[2], max_width |-> mw, max_height |-> mh,
                   has_pixel |-> hp]
    /\ op' = "load"
    /\ pc' = "open"
    /\ UNCHANGED <<file, fileChanged, loader, handleOpen, pos, load_width, load_height, row,
                   row_buffer, calls, reads, error, result, info>>
    /\ UNCHANGED nonBmp

CallInfo ==
    /\ pc = "idle"
    /\ op' = "info"
    /\ pc' = "open"
    /\ UNCHANGED <<file, fileChanged, args, loader, handleOpen, pos, load_width, load_height,
                   row, row_buffer, calls, reads, error, result, info>>
    /\ UNCHANGED nonBmp

(***************************************************************************)
(* The except clauses: load_to_framebuffer prints and returns False for    *)
(* OSError and for every other Exception, get_image_info prints and        *)
(* returns None; leaving the with-block closes the file.                   *)
(***************************************************************************)
\* ExceptReturn with no except clause for OSError: the caller receives it
ExceptReturn_Propagate(o, exc) ==
    IF exc = "OSError" THEN "OSError" ELSE IF o = "load" THEN "False" ELSE "None"

\* the value the except clause for exc returns
ExceptReturn(o, exc) == IF o = "load" THEN "False" ELSE "None"

\* Except without the with-block: the file object stays as it was
Except_LeavesOpen(exc) ==
    /\ error' = exc
    /\ result' = ExceptReturn(op, exc)
    /\ handleOpen' = handleOpen
    /\ pc' = "done"

Except(exc) ==
    /\ error' = exc
    /\ result' = ExceptReturn(op, exc)
    /\ handleOpen' = FALSE
    /\ pc' = "done"

\* open(filename, 'rb') succeeds
Open ==
    /\ pc = "open"
    /\ handleOpen' = TRUE
    /\ pos' = 0
    /\ pc' = "header"
    /\ UNCHANGED <<file, fileChanged, op, args, loader, load_width, load_height, row,
                   row_buffer, calls, reads, error, result, info>>
    /\ UNCHANGED nonBmp

\* open(filename, 'rb') raises OSError
OpenRaises ==
    /\ pc = "open"
    /\ Except("OSError")
    /\ UNCHANGED <<file, fileChanged, op, args, loader, pos, load_width, load_height, row,
                   row_buffer, calls, reads, info>>
    /\ UNCHANGED nonBmp

(***************************************************************************)
(* BMPLoader._read_header                                                  *)
(***************************************************************************)
\* RowSize without the padding to a 4-byte boundary
RowSize_NoPad(bits_per_pixel, width) == IF bits_per_pixel = 8 THEN width ELSE width * 3

RowSize(bits_per_pixel, width) ==
    IF bits_per_pixel = 8 THEN ((width + 3) \div 4) * 4 ELSE ((width * 3 + 3) \div 4) * 4

\* FormatOk without the check of the plane count
FormatOk_NoPlaneCheck(bits_per_pixel, compression, planes) ==
    /\ bits_per_pixel \in {8, 24}
    /\ compression = 0

\* the format validation: none of the three ValueErrors is raised
FormatOk(bits_per_pixel, compression, planes) ==
    /\ bits_per_pixel \in {8, 24}
    /\ compression = 0
    /\ planes = 1

\* the outcome of _read_header on file f at position p with fields l:
\* the fields afterwards, the position afterwards, and whether it raised ValueError
HeaderOutcome(f, p, l) ==
    LET file_header == Read(f, p, BMP_HEADER_SIZE)
        p1 == p + Len(file_header)
    IN
    IF Len(file_header) # BMP_HEADER_SIZE
    THEN [loader |-> l, pos |-> p1, ok |-> FALSE]
    ELSE
    LET signature == U16(file_header, 0)
        l1 == [l EXCEPT !.file_size = U32(file_header, 2), !.data_offset = U32(file_header, 10)]
    IN
    IF signature # BMP_SIGNATURE
    THEN [loader |-> l1, pos |-> p1, ok |-> FALSE]
    ELSE
    LET dib_header == Read(f, p1, DIB_HEADER_SIZE)
        p2 == p1 + Len(dib_header)
    IN
    IF Len(dib_header) # DIB_HEADER_SIZE
    THEN [loader |-> l1, pos |-> p2, ok |-> FALSE]
    ELSE
    LET planes == U16(dib_header, 12)
        compression == U32(dib_header, 16)
        colors_used == U32(dib_header, 32)
        l2 == [l1 EXCEPT !.width = U32(dib_header, 4), !.height = U32(dib_header, 8),
                         !.bits_per_pixel = U16(dib_header, 14)]
    IN
    IF ~FormatOk(l2.bits_per_pixel, compression, planes)
    THEN [loader |-> l2, pos |-> p2, ok |-> FALSE]
    ELSE [loader |-> [l2 EXCEPT !.colors_used = colors_used,
                                !.row_size = RowSize(l2.bits_per_pixel, l2.width)],
          pos |-> p2, ok |-> TRUE]

\* AfterHeader with get_image_info going on like load_to_framebuffer
AfterHeader_InfoDecodes(o) == "palette"

\* what follows a successful _read_header: load_to_framebuffer goes on to the
\* palette, get_image_info to building its dictionary
AfterHeader(o) == IF o = "load" THEN "palette" ELSE "info"

ReadHeader ==
    /\ pc = "header"
    /\ LET out == HeaderOutcome(file, pos, loader)
       IN  /\ loader' = out.loader
           /\ pos' = out.pos
           /\ IF out.ok
              THEN /\ pc' = AfterHeader(op)
                   /\ UNCHANGED <<error, result, handleOpen>>
              ELSE Except("ValueError")
    /\ UNCHANGED <<file, fileChanged, op, args, load_width, load_height, row, row_buffer,
                   calls, reads, info>>
    /\ UNCHANGED nonBmp

\* a file.read of _read_header raises OSError: the first read (stage 1), or the
\* second one after the file header was parsed and its signature accepted (stage 2)
ReadHeaderRaises ==
    /\ pc = "header"
    /\ \E stage \in {1, 2} :
          LET file_header == Read(file, pos, BMP_HEADER_SIZE)
          IN  IF stage = 1
              THEN UNCHANGED <<loader, pos>>
              ELSE /\ Len(file_header) = BMP_HEADER_SIZE
                   /\ U16(file_header, 0) = BMP_SIGNATURE
                   /\ loader' = [loader EXCEPT !.file_size = U32(file_header, 2),
                                               !.data_offset = U32(file_header, 10)]
                   /\ pos' = pos + BMP_HEADER_SIZE
    /\ Except("OSError")
    /\ UNCHANGED <<file, fileChanged, op, args, load_width, load_height, row, row_buffer,
                   calls, reads, info>>
    /\ UNCHANGED nonBmp

(***************************************************************************)
(* BMPLoader._read_palette                                                 *)
(***************************************************************************)
PaletteEntries(colors_used) == IF colors_used > 0 THEN colors_used ELSE 256

\* PaletteColor reading the entry as (red, green, blue, reserved)
PaletteColor_RGBOrder(palette_data, i) ==
    LET offset == i * 4
        r == palette_data[offset + 1]
        g == palette_data[offset + 2]
        b == palette_data[offset + 3]
    IN  rgb565(r, g, b)

\* entry i (from 0) of the palette built from the bytes palette_data
PaletteColor(palette_data, i) ==
    LET offset == i * 4
        b == palette_data[offset + 1]
        g == palette_data[offset + 2]
        r == palette_data[offset + 3]
    IN  rgb565(r, g, b)

BuildPalette(palette_data, palette_entries) ==
    [k \in 1..palette_entries |-> PaletteColor(palette_data, k - 1)]

ReadPalette ==
    /\ pc = "palette"
    /\ IF loader.bits_per_pixel # 8
       THEN /\ pc' = "clip"
            /\ UNCHANGED <<loader, pos, error, result, handleOpen>>
       ELSE LET palette_entries == PaletteEntries(loader.colors_used)
                palette_size == palette_entries * 4
                palette_data == Read(file, pos, palette_size)
            IN  /\ pos' = pos + Len(palette_data)
                /\ IF Len(palette_data) # palette_size
                   THEN /\ Except("ValueError")
                        /\ UNCHANGED loader
                   ELSE /\ loader' = [loader EXCEPT
                                         !.palette = BuildPalette(palette_data, palette_entries)]
                        /\ pc' = "clip"
                        /\ UNCHANGED <<error, result, handleOpen>>
    /\ UNCHANGED <<file, fileChanged, op, args, load_width, load_height, row, row_buffer,
                   calls, reads, info>>
    /\ UNCHANGED nonBmp

\* the file.read of _read_palette raises OSError
ReadPaletteRaises ==
    /\ pc = "palette"
    /\ loader.bits_per_pixel = 8
    /\ Except("OSError")
    /\ UNCHANGED <<file, fileChanged, op, args, loader, pos, load_width, load_height, row,
                   row_buffer, calls, reads, info>>
    /\ UNCHANGED nonBmp

(***************************************************************************)
(* load_to_framebuffer: the clipped dimensions and the row buffer          *)
(***************************************************************************)
\* Python's `bound or full`: the bound unless it is None or 0
OrElse(bound, full) == IF bound = Absent THEN full ELSE IF bound[1] = 0 THEN full ELSE bound[1]

\* LoadDim ignoring the bound
LoadDim_NoClip(full, bound) == full

LoadDim(full, bound) == Min(full, OrElse(bound, full))

\* bytearray(self.row_size)
RowBuffer(row_size) == [i \in 1..row_size |-> 0]

Clip ==
    /\ pc = "clip"
    /\ load_width' = LoadDim(loader.width, args.max_width)
    /\ load_height' = LoadDim(loader.height, args.max_height)
    /\ row_buffer' = RowBuffer(loader.row_size)
    /\ row' = 0
    /\ pc' = "rows"
    /\ UNCHANGED <<file, fileChanged, op, args, loader, handleOpen, pos, calls, reads,
                   error, result, info>>
    /\ UNCHANGED nonBmp

(***************************************************************************)
(* load_to_framebuffer: one iteration of the row loop                      *)
(***************************************************************************)
\* FilePos without the bottom-up mapping of the row
FilePos_TopDown(l, r) == l.data_offset + (r * l.row_size)

FilePos(l, r) == l.data_offset + ((l.height - 1 - r) * l.row_size)

\* file.readinto(row_buffer): the bytes read overwrite the front of the buffer
ReadInto(buf, data) == [i \in 1..Len(buf) |-> IF i <= Len(data) THEN data[i] ELSE buf[i]]

\* ShortRead failing on an empty read only
ShortRead_OnlyEmpty(bytes_read, row_size) == bytes_read = 0 /\ row_size # 0

\* the length check on the row just read
ShortRead(bytes_read, row_size) == bytes_read # row_size

\* PixelColor reading the 24-bit triple as (R, G, B)
PixelColor_RGBOrder(l, buf, col) ==
    IF l.bits_per_pixel = 8
    THEN LET palette_index == buf[col + 1]
         IN  IF palette_index < Len(l.palette) THEN l.palette[palette_index + 1] ELSE 0
    ELSE LET pixel_offset == col * 3
             r == buf[pixel_offset + 1]
             g == buf[pixel_offset + 2]
             b == buf[pixel_offset + 3]
         IN  rgb565(r, g, b)

\* PixelColor clamping an out-of-range index to the last palette entry
PixelColor_ClampIndex(l, buf, col) ==
    IF l.bits_per_pixel = 8
    THEN LET palette_index == buf[col + 1]
         IN  IF palette_index < Len(l.palette) THEN l.palette[palette_index + 1]
             ELSE l.palette[Len(l.palette)]
    ELSE LET pixel_offset == col * 3
             b == buf[pixel_offset + 1]
             g == buf[pixel_offset + 2]
             r == buf[pixel_offset + 3]
         IN  rgb565(r, g, b)

\* the colour of column col of the row held in buf
PixelColor(l, buf, col) ==
    IF l.bits_per_pixel = 8
    THEN LET palette_index == buf[col + 1]
         IN  IF palette_index < Len(l.palette) THEN l.palette[palette_index + 1] ELSE 0
    ELSE LET pixel_offset == col * 3
             b == buf[pixel_offset + 1]
             g == buf[pixel_offset + 2]
             r == buf[pixel_offset + 3]
         IN  rgb565(r, g, b)

\* RowCalls with fb_x one too far to the right
RowCalls_OffByOne(l, a, buf, r, lw) ==
    IF a.has_pixel
    THEN [c \in 1..lw |-> <<a.dest_x + c, a.dest_y + r, PixelColor(l, buf, c - 1)>>]
    ELSE <<>>

\* the framebuffer.pixel calls of one row, in the order of the column loop
RowCalls(l, a, buf, r, lw) ==
    IF a.has_pixel
    THEN [c \in 1..lw |-> <<a.dest_x + (c - 1), a.dest_y + r, PixelColor(l, buf, c - 1)>>]
    ELSE <<>>

DecodeRow ==
    /\ pc = "rows"
    /\ row < load_height
    /\ LET file_pos == FilePos(loader, row)
           data == Read(file, file_pos, loader.row_size)
           bytes_read == Len(data)
           buf == ReadInto(row_buffer, data)
       IN  /\ pos' = file_pos + bytes_read
           /\ row_buffer' = buf
           /\ reads' = Append(reads, <<row, file_pos, loader.row_size, data>>)
           /\ IF ShortRead(bytes_read, loader.row_size)
              THEN /\ Except("ValueError")
                   /\ UNCHANGED <<calls, row>>
              ELSE /\ calls' = calls \o RowCalls(loader, args, buf, row, load_width)
                   /\ row' = row + 1
                   /\ UNCHANGED <<pc, error, result, handleOpen>>
    /\ UNCHANGED <<file, fileChanged, op, args, loader, load_width, load_height, info>>
    /\ UNCHANGED nonBmp

\* file.seek or file.readinto of the row loop raises OSError
DecodeRowRaises ==
    /\ pc = "rows"
    /\ row < load_height
    /\ Except("OSError")
    /\ UNCHANGED <<file, fileChanged, op, args, loader, pos, load_width, load_height, row,
                   row_buffer, calls, reads, info>>
    /\ UNCHANGED nonBmp

\* the row loop is over: return True
ReturnTrue ==
    /\ pc = "rows"
    /\ row >= load_height
    /\ result' = "True"
    /\ handleOpen' = FALSE
    /\ pc' = "done"
    /\ UNCHANGED <<file, fileChanged, op, args, loader, pos, load_width, load_height, row,
                   row_buffer, calls, reads, error, info>>
    /\ UNCHANGED nonBmp

(***************************************************************************)
(* get_image_info after a successful _read_header                          *)
(***************************************************************************)
\* PaletteColors reporting the declared colors_used as it is
PaletteColors_Declared(l) == IF l.bits_per_pixel = 8 THEN l.colors_used ELSE 0

PaletteColors(l) ==
    IF l.bits_per_pixel = 8 THEN (IF l.colors_used > 0 THEN l.colors_used ELSE 256) ELSE 0

ReturnInfo ==
    /\ pc = "info"
    /\ info' = [width |-> loader.width, height |-> loader.height,
                bits_per_pixel |-> loader.bits_per_pixel, file_size |-> loader.file_size,
                palette_colors |-> PaletteColors(loader)]
    /\ result' = "dict"
    /\ handleOpen' = FALSE
    /\ pc' = "done"
    /\ UNCHANGED <<file, fileChanged, op, args, loader, pos, load_width, load_height, row,
                   row_buffer, calls, reads, error>>
    /\ UNCHANGED nonBmp

(***************************************************************************)
(* The environment: the file is shortened to a row boundary of its pixel   *)
(* data while the row loop is running, so that a later readinto comes up   *)
(* short.                                                                  *)
(***************************************************************************)
FileShortened ==
    /\ pc = "rows"
    /\ ~fileChanged
    /\ \E k \in 0..loader.height :
          LET n == loader.data_offset + k * loader.row_size
          IN  /\ n < Len(file)
              /\ file' = SubSeq(file, 1, n)
    /\ fileChanged' = TRUE
    /\ UNCHANGED <<pc, op, args, loader, handleOpen, pos, load_width, load_height, row,
                   row_buffer, calls, reads, error, result, info>>
    /\ UNCHANGED nonBmp

Next ==
    \/ CallLoad
    \/ CallInfo
    \/ Open
    \/ OpenRaises
    \/ ReadHeader
    \/ ReadHeaderRaises
    \/ ReadPalette
    \/ ReadPaletteRaises
    \/ Clip
    \/ DecodeRow
    \/ DecodeRowRaises
    \/ ReturnTrue
    \/ ReturnInfo
    \/ FileShortened

Spec == Init /\ [][Next]_vars

(***************************************************************************)
(* The claims.                                                             *)
(***************************************************************************)
\* column and row, relative to the destination, of the i-th pixel call
ColOf(i) == calls[i][1] - args.dest_x
RowOf(i) == calls[i][2] - args.dest_y

\* number of pixel calls made for the coordinate (x, y)
CountAt(x, y) == Cardinality({ i \in DOMAIN calls : calls[i][1] = x /\ calls[i][2] = y })

Succeeded == pc = "done" /\ op = "load" /\ result = "True"

\* C1: when load_to_framebuffer returns True on a surface with a pixel setter,
\* the setter was called exactly once for every (dest_x+col, dest_y+row) with
\* 0 <= col < load_width and 0 <= row < load_height, and for no other coordinate.
C1_EveryPixelOnce ==
    (Succeeded /\ args.has_pixel) =>
        /\ \A col \in 0..(load_width - 1), r \in 0..(load_height - 1) :
              CountAt(args.dest_x + col, args.dest_y + r) = 1
        /\ \A i \in DOMAIN calls :
              ColOf(i) \in 0..(load_width - 1) /\ RowOf(i) \in 0..(load_height - 1)

C1_Witness ==
    /\ Succeeded /\ args.has_pixel
    /\ args.dest_x > 0
    /\ load_width >= 2 /\ load_height >= 2
    /\ Len(calls) = load_width * load_height

\* C2: the i-th row read is the read for destination row i-1, it is made at
\* file offset data_offset + (height-1-row)*row_size and yields the bytes
\* stored there, so destination row 0 comes from the last stored row and
\* destination row height-1 from the first stored row; the pixel calls are
\* made in increasing order of destination row.
C2_BottomUpRows ==
    /\ \A i \in DOMAIN reads :
          LET off == loader.data_offset + (loader.height - 1 - (i - 1)) * loader.row_size
          IN  /\ reads[i][1] = i - 1
              /\ reads[i][2] = off
              /\ reads[i][3] = loader.row_size
              /\ ~fileChanged =>
                    reads[i][4] = [k \in 1..(Min(off + loader.row_size, Len(file)) - off)
                                      |-> file[off + k]]
    /\ reads # <<>> => reads[1][2] = loader.data_offset + (loader.height - 1) * loader.row_size
    /\ (loader.height > 0 /\ Len(reads) = loader.height) =>
          reads[loader.height][2] = loader.data_offset
    /\ \A i, j \in DOMAIN calls : i < j => calls[i][2] <= calls[j][2]

C2_Witness ==
    /\ Succeeded /\ args.has_pixel
    /\ loader.height = 2 /\ Len(reads) = 2
    /\ loader.row_size > 0
    /\ reads[1][2] = loader.data_offset + loader.row_size
    /\ reads[2][2] = loader.data_offset
    /\ reads[1][4] # reads[2][4]
    /\ calls # <<>>

\* the bytes of the stored row that destination row r was decoded from, as read
StoredRow(r) == reads[r + 1][4]

\* the 2x2 24-bit image of the end-to-end scenario: stored rows
\* [BGR(0,0,255), BGR(0,255,0)] (bottom) and [BGR(255,0,0), BGR(255,255,255)] (top)
ScenarioFile == MakeFile(BMP_SIGNATURE, 2, 2, 1, 24, 0, 2, ScenarioPattern)

ScenarioDecoded ==
    /\ file = ScenarioFile
    /\ Succeeded /\ args.has_pixel
    /\ args.dest_x = 0 /\ args.dest_y = 0
    /\ args.max_width = Absent /\ args.max_height = Absent

CallSet == { calls[i] : i \in DOMAIN calls }

\* packed colours of the scenario: rgb565(0,0,255) = 7936, rgb565(0,255,0) = 57351,
\* rgb565(255,0,0) = 248, rgb565(255,255,255) = 65535
ScenarioAsListed ==
    ScenarioDecoded =>
        /\ Len(calls) = 4
        /\ CallSet = {<<0, 0, 7936>>, <<1, 0, 57351>>, <<0, 1, 248>>, <<1, 1, 65535>>}

ScenarioAsDecoded ==
    ScenarioDecoded =>
        /\ Len(calls) = 4
        /\ CallSet = {<<0, 0, 7936>>, <<1, 0, 65535>>, <<0, 1, 248>>, <<1, 1, 57351>>}

TrueColourPixels ==
    (op = "load" /\ loader.bits_per_pixel = 24) =>
        \A i \in DOMAIN calls :
            LET col == ColOf(i)
                off == loader.data_offset + (loader.height - 1 - RowOf(i)) * loader.row_size
            IN  /\ calls[i][3] = rgb565(StoredRow(RowOf(i))[col * 3 + 3],
                                        StoredRow(RowOf(i))[col * 3 + 2],
                                        StoredRow(RowOf(i))[col * 3 + 1])
                /\ ~fileChanged =>
                      calls[i][3] = rgb565(file[off + col * 3 + 3], file[off + col * 3 + 2],
                                           file[off + col * 3 + 1])

\* C3 as stated: for a 24-bit image the colour written at (dest_x+col, dest_y+row)
\* is rgb565(R, G, B) of the bytes B, G, R at col*3, col*3+1, col*3+2 of the stored
\* row height-1-row, and the 2x2 scenario yields the four writes as listed.
C3_AsStated == TrueColourPixels /\ ScenarioAsListed

\* C3 amended: the same colour rule, and the 2x2 scenario yields (0,0)=rgb565(0,0,255),
\* (1,0)=rgb565(255,255,255), (0,1)=rgb565(255,0,0), (1,1)=rgb565(0,255,0).
C3_TrueColour == TrueColourPixels /\ ScenarioAsDecoded

C3_Witness == ScenarioDecoded /\ Len(calls) = 4

\* C4: palette entry i is rgb565(R, G, B) of the i-th stored 4-byte entry read as
\* (blue, green, red, reserved), whatever the reserved byte, and a pixel whose
\* index byte is below the palette length is written as palette[index].
C4_PaletteLookup ==
    (op = "load" /\ loader.bits_per_pixel = 8 /\ loader.palette # NoPalette) =>
        LET base == BMP_HEADER_SIZE + DIB_HEADER_SIZE
        IN  /\ \A i \in 0..(Len(loader.palette) - 1) :
                  loader.palette[i + 1] = rgb565(file[base + 4 * i + 3], file[base + 4 * i + 2],
                                                 file[base + 4 * i + 1])
            /\ \A c \in DOMAIN calls :
                  LET index == StoredRow(RowOf(c))[ColOf(c) + 1]
                  IN  index < Len(loader.palette) => calls[c][3] = loader.palette[index + 1]

C4_Witness ==
    /\ Succeeded /\ args.has_pixel /\ loader.bits_per_pixel = 8
    /\ \E c \in DOMAIN calls :
          LET index == StoredRow(RowOf(c))[ColOf(c) + 1]
          IN  /\ index > 0 /\ index < Len(loader.palette)
              /\ calls[c][3] = loader.palette[index + 1]
              /\ calls[c][3] # loader.palette[1]

\* C5: in an 8-bit image a pixel byte that is not below the palette length is
\* written as colour 0, and it does not make the decode fail: a ValueError in
\* the row loop comes from a short row read only.
C5_FallbackBlack ==
    (op = "load" /\ loader.bits_per_pixel = 8) =>
        /\ \A c \in DOMAIN calls :
              StoredRow(RowOf(c))[ColOf(c) + 1] >= Len(loader.palette) => calls[c][3] = 0
        /\ (pc = "done" /\ error = "ValueError" /\ reads # <<>>) =>
              Len(reads[Len(reads)][4]) # loader.row_size

C5_Witness ==
    /\ Succeeded /\ args.has_pixel /\ loader.bits_per_pixel = 8
    /\ loader.palette[Len(loader.palette)] # 0
    /\ \E c \in DOMAIN calls :
          /\ StoredRow(RowOf(c))[ColOf(c) + 1] >= Len(loader.palette)
          /\ calls[c][3] = 0

\* C6: with 0 < max_width < width no pixel call is made for a source column >=
\* max_width although every row is read at its full padded size, and with
\* 0 < max_height < height no pixel call is made for a row >= max_height.
C6_Clipping ==
    op = "load" =>
        /\ (args.max_width # Absent /\ 0 < args.max_width[1]
                /\ args.max_width[1] < loader.width) =>
              /\ \A i \in DOMAIN calls : ColOf(i) >= 0 /\ ColOf(i) < args.max_width[1]
              /\ \A i \in DOMAIN reads :
                    /\ reads[i][3] = RowSizeOf(loader.width, loader.bits_per_pixel)
                    /\ (i < Len(reads) \/ Succeeded) => Len(reads[i][4]) = reads[i][3]
        /\ (args.max_height # Absent /\ 0 < args.max_height[1]
                /\ args.max_height[1] < loader.height) =>
              /\ \A i \in DOMAIN calls : RowOf(i) >= 0 /\ RowOf(i) < args.max_height[1]
              /\ Len(reads) <= args.max_height[1]

C6_Witness ==
    /\ Succeeded /\ args.has_pixel
    /\ args.max_width = <<1>> /\ loader.width = 2
    /\ args.max_height = <<1>> /\ loader.height = 2
    /\ Len(calls) = 1
    /\ Len(reads) = 1 /\ Len(reads[1][4]) = loader.row_size /\ loader.row_size >= 2

\* C7 as stated: every supplied max_width, 0 included, gives load_width =
\* min(width, max_width), every supplied max_height gives load_height =
\* min(height, max_height), and a supplied bound of 0 lets no pixel be written.
C7_SuppliedBoundIsMin ==
    (op = "load" /\ pc = "rows") =>
        /\ args.max_width # Absent => load_width = Min(loader.width, args.max_width[1])
        /\ args.max_height # Absent => load_height = Min(loader.height, args.max_height[1])
        /\ (args.max_width = <<0>> \/ args.max_height = <<0>>) => calls = <<>>

\* the header of the bytes f is one the decoder must reject: a file header or
\* info header that is cut short, a wrong signature, depth, compression or
\* plane count, or an 8-bit palette that is cut short
HeaderInvalid(f) ==
    \/ Len(f) < BMP_HEADER_SIZE
    \/ U16(f, 0) # BMP_SIGNATURE
    \/ Len(f) < BMP_HEADER_SIZE + DIB_HEADER_SIZE
    \/ U16(f, 28) \notin {8, 24}
    \/ U32(f, 30) # 0
    \/ U16(f, 26) # 1
    \/ /\ U16(f, 28) = 8
       /\ Len(f) < BMP_HEADER_SIZE + DIB_HEADER_SIZE
                      + 4 * (IF U32(f, 46) > 0 THEN U32(f, 46) ELSE 256)

\* C8: on a file whose header is invalid load_to_framebuffer never calls the
\* pixel setter, never returns True, and returns False when it returns.
C8_InvalidHeaderRejected ==
    (op = "load" /\ HeaderInvalid(file)) =>
        /\ calls = <<>>
        /\ result # "True"
        /\ pc = "done" => result = "False"

C8_Witness ==
    /\ op = "load" /\ pc = "done" /\ args.has_pixel
    /\ Len(file) >= BMP_HEADER_SIZE + DIB_HEADER_SIZE
    /\ U16(file, 0) = BMP_SIGNATURE /\ U16(file, 28) = 24 /\ U32(file, 30) = 0
    /\ U16(file, 26) = 2
    /\ U32(file, 18) > 0 /\ U32(file, 22) > 0
    /\ error = "ValueError" /\ result = "False" /\ calls = <<>>

\* C9: once the read for destination row k came up short, load_to_framebuffer
\* has returned False, and the pixel calls made are exactly one call for every
\* pixel of the clipped rows 0..k-1 and none for row k or a later row.
C9_ShortRowStops ==
    (op = "load" /\ reads # <<>> /\ Len(reads[Len(reads)][4]) # loader.row_size) =>
        LET k == reads[Len(reads)][1]
        IN  /\ pc = "done" /\ result = "False" /\ error = "ValueError"
            /\ k = Len(reads) - 1
            /\ args.has_pixel =>
                  \A col \in 0..(load_width - 1), r \in 0..(k - 1) :
                      CountAt(args.dest_x + col, args.dest_y + r) = 1
            /\ \A i \in DOMAIN calls :
                  RowOf(i) \in 0..(k - 1) /\ ColOf(i) \in 0..(load_width - 1)

C9_Witness ==
    /\ op = "load" /\ pc = "done" /\ result = "False" /\ args.has_pixel
    /\ Len(reads) = 2
    /\ Len(reads[1][4]) = loader.row_size
    /\ Len(reads[2][4]) < loader.row_size
    /\ load_width >= 2
    /\ Len(calls) = load_width

C11_InfoReadsHeadersOnly ==
    op = "info" =>
        /\ calls = <<>>
        /\ reads = <<>>
        /\ pos <= BMP_HEADER_SIZE + DIB_HEADER_SIZE
        /\ loader.palette = NoPalette
        /\ pc \in {"open", "header", "info", "done"}

C11_Witness ==
    /\ op = "info" /\ pc = "done" /\ result = "dict"
    /\ info.bits_per_pixel = 8 /\ info.height > 0 /\ info.width > 0
    /\ pos = BMP_HEADER_SIZE + DIB_HEADER_SIZE
    /\ Len(file) > pos

\* the number of palette entries the raw header of the bytes f declares
DeclaredEntries(f) == IF U32(f, 46) > 0 THEN U32(f, 46) ELSE 256

\* C12: the palette built for an accepted 8-bit image has colorsUsed entries when
\* colorsUsed > 0 and 256 entries when colorsUsed = 0, read as 4 bytes per entry,
\* get_image_info reports the same number as palette_colors, and it reports
\* palette_colors = 0 for a 24-bit image.
C12_PaletteLength ==
    /\ (op = "load" /\ loader.palette # NoPalette) =>
          /\ Len(loader.palette) = DeclaredEntries(file)
          /\ pc = "clip" => pos = BMP_HEADER_SIZE + DIB_HEADER_SIZE + 4 * Len(loader.palette)
    /\ (op = "load" /\ pc \in {"clip", "rows"} /\ loader.bits_per_pixel = 8) =>
          loader.palette # NoPalette
    /\ (op = "info" /\ result = "dict") =>
          info.palette_colors = (IF U16(file, 28) = 8 THEN DeclaredEntries(file) ELSE 0)

C12_Witness ==
    /\ op = "load" /\ Succeeded /\ loader.bits_per_pixel = 8
    /\ U32(file, 46) = 0
    /\ Len(loader.palette) = 256

\* C13 as stated: whatever colorsUsed declares, the palette the decoder builds for
\* an 8-bit image it accepts has at most 256 entries.
C13_PaletteAtMost256 ==
    op = "load" => Len(loader.palette) <= 256

\* C17: when load_to_framebuffer or get_image_info has returned, on success, on
\* a ValueError or on an OSError, the file object it opened is closed; the file
\* object is open only between open() and the return.
C17_HandleClosed ==
    /\ pc = "done" => ~handleOpen
    /\ handleOpen => pc \in {"header", "palette", "clip", "rows", "info"}
    /\ pc \in {"header", "palette", "clip", "rows", "info"} => handleOpen

C17_Witness ==
    /\ pc = "done" /\ op = "load" /\ error = "ValueError" /\ result = "False"
    /\ reads # <<>> /\ calls # <<>>
    /\ ~handleOpen

(***************************************************************************)
(* The colour codec of m5graphics.py and the row size of bmp_loader.py as  *)
(* functions of their inputs: SpecCodec draws one input and applies them.  *)
(***************************************************************************)
BLACK == 0
WHITE == 65535
RED == 248
GREEN == 57351
BLUE == 7936
YELLOW == 57599
CYAN == 65287
MAGENTA == 8184

\* m5_rgb565 without the swap of the two bytes
m5_rgb565_NoSwap(r, g, b) ==
    BitOr(BitOr(BitAnd(r, 248) * 256, BitAnd(g, 252) * 8), b \div 8)

\* m5graphics.rgb565
m5_rgb565(r, g, b) ==
    LET color == BitOr(BitOr(BitAnd(r, 248) * 256, BitAnd(g, 252) * 8), b \div 8)
    IN  BitOr(BitAnd(color, 255) * 256, BitAnd(color \div 256, 255))

\* m5graphics.rgb565_to_rgb
rgb565_to_rgb(color) ==
    <<BitAnd(color \div 256, 248), BitAnd(color \div 8, 252), BitAnd(color * 8, 248)>>

\* int(a / b) for b > 0: the quotient rounded toward zero
Trunc(a, b) == IF a >= 0 THEN a \div b ELSE -((-a) \div b)

\* the channels darken_color hands to rgb565 for the factor num/den
DarkenChannels(color, num, den) ==
    LET rgb == rgb565_to_rgb(color)
    IN  <<Trunc(rgb[1] * num, den), Trunc(rgb[2] * num, den), Trunc(rgb[3] * num, den)>>

\* the channels lighten_color hands to rgb565 for the factor num/den
LightenChannels(color, num, den) ==
    LET rgb == rgb565_to_rgb(color)
    IN  <<Min(255, Trunc(rgb[1] * den + (255 - rgb[1]) * num, den)),
          Min(255, Trunc(rgb[2] * den + (255 - rgb[2]) * num, den)),
          Min(255, Trunc(rgb[3] * den + (255 - rgb[3]) * num, den))>>

darken_color(color, num, den) ==
    LET c == DarkenChannels(color, num, den) IN m5_rgb565(c[1], c[2], c[3])

lighten_color(color, num, den) ==
    LET c == LightenChannels(color, num, den) IN m5_rgb565(c[1], c[2], c[3])

\* inputs: every value of one channel with samples of the other two
Channel == 0..255
ChannelSamples == {0, 7, 8, 127, 128, 248, 255}
RGBInputs ==
    (Channel \X ChannelSamples \X ChannelSamples)
        \cup (ChannelSamples \X Channel \X ChannelSamples)
        \cup (ChannelSamples \X ChannelSamples \X Channel)

NamedColors == {BLACK, WHITE, RED, GREEN, BLUE, YELLOW, CYAN, MAGENTA}
ShadeInputs == (NamedColors \cup {4228, 33808}) \X ((-MaxFactor)..MaxFactor) \X {1, 2, 4}
RowInputs == {8, 24} \X (0..MaxRowWidth) \X (0..MaxDim)

CodecInputs ==
    { [fn |-> "input", kind |-> "rgb", in |-> x] : x \in RGBInputs }
        \cup { [fn |-> "input", kind |-> "shade", in |-> x] : x \in ShadeInputs }
        \cup { [fn |-> "input", kind |-> "row", in |-> x] : x \in RowInputs }

\* the decoder at rest while another part of the program is looked at
BmpIdle ==
    /\ file = <<>>
    /\ fileChanged = FALSE
    /\ pc = "idle"
    /\ op = "none"
    /\ args = NoArgs
    /\ loader = NewLoader
    /\ handleOpen = FALSE
    /\ pos = 0
    /\ load_width = 0
    /\ load_height = 0
    /\ row = 0
    /\ row_buffer = <<>>
    /\ calls = <<>>
    /\ reads = <<>>
    /\ error = "none"
    /\ result = "pending"
    /\ info = NoInfo

InitCodec ==
    /\ BmpIdle
    /\ codec \in CodecInputs
    /\ gfx = NewGraphics
    /\ music = NewPlayer
    /\ game = NewGame

\* both rgb565 functions applied to the drawn channels
ApplyRgb565 ==
    /\ codec.fn = "input" /\ codec.kind = "rgb"
    /\ codec' = [fn |-> "rgb565", kind |-> "rgb", in |-> codec.in,
                 bmp |-> rgb565(codec.in[1], codec.in[2], codec.in[3]),
                 m5 |-> m5_rgb565(codec.in[1], codec.in[2], codec.in[3])]
    /\ UNCHANGED <<bmpVars, gfx, music, game>>

\* rgb565_to_rgb applied to the colour m5graphics.rgb565 returned
ApplyRgb565ToRgb ==
    /\ codec.fn = "rgb565"
    /\ codec' = [fn |-> "rgb565_to_rgb", kind |-> "rgb", in |-> codec.in,
                 bmp |-> codec.bmp, m5 |-> codec.m5, rgb |-> rgb565_to_rgb(codec.m5)]
    /\ UNCHANGED <<bmpVars, gfx, music, game>>

ApplyDarken ==
    /\ codec.fn = "input" /\ codec.kind = "shade"
    /\ codec' = [fn |-> "darken_color", kind |-> "shade", in |-> codec.in,
                 handed |-> DarkenChannels(codec.in[1], codec.in[2], codec.in[3]),
                 out |-> darken_color(codec.in[1], codec.in[2], codec.in[3])]
    /\ UNCHANGED <<bmpVars, gfx, music, game>>

ApplyLighten ==
    /\ codec.fn = "input" /\ codec.kind = "shade"
    /\ codec' = [fn |-> "lighten_color", kind |-> "shade", in |-> codec.in,
                 handed |-> LightenChannels(codec.in[1], codec.in[2], codec.in[3]),
                 out |-> lighten_color(codec.in[1], codec.in[2], codec.in[3])]
    /\ UNCHANGED <<bmpVars, gfx, music, game>>

\* the row size _read_header computes and the row buffer load_to_framebuffer
\* allocates for an image of the drawn depth, width and height
ApplyRowSize ==
    /\ codec.fn = "input" /\ codec.kind = "row"
    /\ codec' = [fn |-> "row_size", kind |-> "row", in |-> codec.in,
                 row_size |-> RowSize(codec.in[1], codec.in[2]),
                 buffer |-> RowBuffer(RowSize(codec.in[1], codec.in[2]))]
    /\ UNCHANGED <<bmpVars, gfx, music, game>>

NextCodec ==
    \/ ApplyRgb565
    \/ ApplyRgb565ToRgb
    \/ ApplyDarken
    \/ ApplyLighten
    \/ ApplyRowSize

SpecCodec == InitCodec /\ [][NextCodec]_vars

\* the least n with 4 * n >= x, for x >= 0
CeilQuarter(x) == CHOOSE n \in 0..x : 4 * n >= x /\ (n = 0 \/ 4 * (n - 1) < x)

\* C14: for every width >= 0 the row size is ceil(width*k/4)*4 with k = 1 for
\* 8-bit and k = 3 for 24-bit: a multiple of 4, at least width*k and less than
\* width*k + 4 (24-bit: 1 -> 4, 2 -> 8; 8-bit: 4 -> 4, 5 -> 8), and the row buffer
\* has exactly that many bytes whatever the height.
C14_RowSize ==
    codec.fn = "row_size" =>
        LET w == codec.in[2]
            k == IF codec.in[1] = 8 THEN 1 ELSE 3
            rs == codec.row_size
        IN  /\ rs = CeilQuarter(w * k) * 4
            /\ rs % 4 = 0 /\ rs >= w * k /\ rs < w * k + 4
            /\ Len(codec.buffer) = rs
            /\ (codec.in[1] = 24 /\ w = 1) => rs = 4
            /\ (codec.in[1] = 24 /\ w = 2) => rs = 8
            /\ (codec.in[1] = 8 /\ w = 4) => rs = 4
            /\ (codec.in[1] = 8 /\ w = 5) => rs = 8

C14_Witness ==
    /\ codec.fn = "row_size"
    /\ codec.in[1] = 8 /\ codec.in[2] = 5 /\ codec.in[3] = 0
    /\ codec.row_size = 8 /\ Len(codec.buffer) = 8

Dist(a, b) == IF a >= b THEN a - b ELSE b - a

\* C15 as stated: rgb565_to_rgb(rgb565(r, g, b)) returns r & 0xF8, g & 0xFC and
\* b & 0xF8: red and blue within 4 and green within 2 of the originals.
C15_RoundTrip ==
    codec.fn = "rgb565_to_rgb" =>
        /\ codec.rgb = <<(codec.in[1] \div 8) * 8, (codec.in[2] \div 4) * 4,
                         (codec.in[3] \div 8) * 8>>
        /\ Dist(codec.rgb[1], codec.in[1]) <= 4
        /\ Dist(codec.rgb[2], codec.in[2]) <= 2
        /\ Dist(codec.rgb[3], codec.in[3]) <= 4

\* the 5/6/5 packing and the swap of the two bytes of a 16-bit value, in arithmetic
Packed565(r, g, b) == (r \div 8) * 2048 + (g \div 4) * 32 + (b \div 8)
Swap16(x) == (x % 256) * 256 + (x \div 256)

NominalColors ==
    { <<BLACK, <<0, 0, 0>> >>, <<WHITE, <<255, 255, 255>> >>, <<RED, <<255, 0, 0>> >>,
      <<GREEN, <<0, 255, 0>> >>, <<BLUE, <<0, 0, 255>> >>, <<YELLOW, <<255, 255, 0>> >>,
      <<CYAN, <<0, 255, 255>> >>, <<MAGENTA, <<255, 0, 255>> >> }

\* C16: for channels in 0..255 bmp_loader.rgb565 and m5graphics.rgb565 return the
\* same value, the byte swap of (r>>3)<<11 | (g>>2)<<5 | (b>>3), within 0..65535,
\* and each named colour constant is rgb565 of its nominal triple.
C16_OnePackedColour ==
    codec.fn = "rgb565" =>
        /\ codec.bmp = codec.m5
        /\ codec.m5 = Swap16(Packed565(codec.in[1], codec.in[2], codec.in[3]))
        /\ codec.m5 \in 0..65535
        /\ \A n \in NominalColors : codec.in = n[2] => codec.m5 = n[1]

C16_Witness ==
    /\ codec.fn = "rgb565"
    /\ codec.in = <<255, 255, 0>>
    /\ codec.bmp = YELLOW /\ codec.m5 = YELLOW

Margin == 1
PixelXs == ((-Margin)..0) \cup ((DISPLAY_WIDTH - 1)..(DISPLAY_WIDTH - 1 + Margin))
PixelYs == ((-Margin)..0) \cup ((DISPLAY_HEIGHT - 1)..(DISPLAY_HEIGHT - 1 + Margin))
PixelColors == {BLACK, RED, WHITE}

\* the steps of init_display that can raise, and "none" when none does
InitFailures == {"none", "spi", "driver", "init", "buffer", "framebuffer"}

InRange(x, y) == 0 <= x /\ x < DISPLAY_WIDTH /\ 0 <= y /\ y < DISPLAY_HEIGHT

\* framebuffer.pixel(x, y, color)
SetPixel_Row(cells, x, y, color) ==
    [c \in Cells |-> IF c[2] = y THEN color ELSE cells[c]]

SetPixel(cells, x, y, color) ==
    [c \in Cells |-> IF c = <<x, y>> THEN color ELSE cells[c]]

\* framebuffer.fill(color)
Fill(cells, color) == [c \in Cells |-> color]

\* RaiseNotInitialized returning None instead of raising
RaiseNotInitialized_Silent(call) ==
    gfx' = [gfx EXCEPT !.last = [op |-> call.op, init |-> FALSE, raised |-> FALSE]]

\* a drawing call on an instance whose _initialized is false
RaiseNotInitialized(call) ==
    gfx' = [gfx EXCEPT !.last = [op |-> call.op, init |-> FALSE, raised |-> TRUE]]

\* a write through self.framebuffer reaches self.buffer when they share the bytes
Draw(cells, call) ==
    gfx' = [gfx EXCEPT !.fbCells = cells,
                       !.bufCells = IF gfx.shared THEN cells ELSE @,
                       !.last = call]

InitDisplay ==
    /\ \E fail \in InitFailures :
        LET last == [op |-> "init_display", init |-> gfx.initialized, raised |-> FALSE,
                     ret |-> (fail = "none")]
        IN  CASE fail \in {"spi", "driver"} ->
                    gfx' = [gfx EXCEPT !.last = last]
              [] fail \in {"init", "buffer"} ->
                    gfx' = [gfx EXCEPT !.display = TRUE, !.last = last]
              [] fail = "framebuffer" ->
                    gfx' = [gfx EXCEPT !.display = TRUE, !.buffer = TRUE,
                                       !.bufCells = ZeroCells, !.shared = FALSE,
                                       !.last = last]
              [] OTHER ->
                    gfx' = [initialized |-> TRUE, display |-> TRUE, buffer |-> TRUE,
                            framebuffer |-> TRUE, shared |-> TRUE,
                            bufCells |-> ZeroCells, fbCells |-> ZeroCells, last |-> last]
    /\ UNCHANGED <<bmpVars, codec, music, game>>

GfxClear ==
    /\ \E color \in PixelColors :
        IF ~gfx.initialized
        THEN RaiseNotInitialized([op |-> "clear"])
        ELSE Draw(Fill(gfx.fbCells, color),
                  [op |-> "clear", init |-> TRUE, raised |-> FALSE, color |-> color])
    /\ UNCHANGED <<bmpVars, codec, music, game>>

GfxPixel ==
    /\ \E x \in PixelXs, y \in PixelYs, color \in PixelColors :
        IF ~gfx.initialized
        THEN RaiseNotInitialized([op |-> "pixel"])
        ELSE Draw(IF InRange(x, y) THEN SetPixel(gfx.fbCells, x, y, color) ELSE gfx.fbCells,
                  [op |-> "pixel", init |-> TRUE, raised |-> FALSE,
                   x |-> x, y |-> y, color |-> color, before |-> gfx.fbCells])
    /\ UNCHANGED <<bmpVars, codec, music, game>>

GfxGetPixel ==
    /\ \E x \in PixelXs, y \in PixelYs :
        IF ~gfx.initialized
        THEN RaiseNotInitialized([op |-> "get_pixel"])
        ELSE gfx' = [gfx EXCEPT !.last =
                        [op |-> "get_pixel", init |-> TRUE, raised |-> FALSE,
                         x |-> x, y |-> y, before |-> gfx.fbCells,
                         ret |-> IF InRange(x, y) THEN gfx.fbCells[<<x, y>>] ELSE 0]]
    /\ UNCHANGED <<bmpVars, codec, music, game>>

(***************************************************************************)
(* M5Graphics: show, the drawing primitives and load_bmp.  The primitives  *)
(* hand their arguments to the framebuffer, which clips to its rectangle;  *)
(* the arguments are chosen so that the tracked cells they cover are the   *)
(* cells of the span, rectangle, segment or disc named by the arguments.   *)
(***************************************************************************)
\* fill_rect(x, y, w, h) covers cell c
InRect(c, x, y, w, h) == x <= c[1] /\ c[1] < x + w /\ y <= c[2] /\ c[2] < y + h

\* rect(x, y, w, h) draws cell c: the four sides of the rectangle
OnRect(c, x, y, w, h) ==
    /\ InRect(c, x, y, w, h)
    /\ c[1] \in {x, x + w - 1} \/ c[2] \in {y, y + h - 1}

\* line(x0, y0, x1, y1) draws cell c, for a cell that lies on the segment
OnSegment(c, x0, y0, x1, y1) ==
    /\ (c[1] - x0) * (y1 - y0) = (c[2] - y0) * (x1 - x0)
    /\ Min(x0, x1) <= c[1] /\ c[1] <= x0 + x1 - Min(x0, x1)
    /\ Min(y0, y1) <= c[2] /\ c[2] <= y0 + y1 - Min(y0, y1)

\* circle(x, y, 1) draws cell c: the centre and its four neighbours when filled,
\* the four neighbours when not
OnCircle(c, x, y, radius, fill) ==
    LET d == Dist(c[1], x) + Dist(c[2], y)
    IN  IF fill THEN d <= radius ELSE d = radius

\* the framebuffer after a primitive that draws the cells in covered
Paint(cells, covered, color) == [c \in Cells |-> IF c \in covered THEN color ELSE cells[c]]

\* inputs
Spans == {<<0, 0, 135>>, <<-1, 239, 1>>, <<134, 0, 0>>, <<134, 239, 1>>, <<0, 240, 135>>}
Segments == {<<0, 0, 134, 0>>, <<0, 0, 134, 239>>, <<-1, 239, 135, 239>>, <<0, 239, 0, 0>>}
Rects == {<<0, 0, 135, 240>>, <<-1, -1, 2, 2>>, <<1, 1, 133, 238>>, <<134, 239, 5, 5>>}
Centres == {<<0, 0>>, <<67, 120>>}
TextArgs == {<<0, 0, 0>>, <<-7, -7, 1>>, <<8, 8, 1>>}

GfxShow ==
    /\ IF ~gfx.initialized
       THEN RaiseNotInitialized([op |-> "show"])
       ELSE gfx' = [gfx EXCEPT !.last = [op |-> "show", init |-> TRUE, raised |-> FALSE,
                                         sent |-> gfx.bufCells]]
    /\ UNCHANGED <<bmpVars, codec, music, game>>

GfxLine ==
    /\ \E l \in Segments, color \in PixelColors :
        IF ~gfx.initialized
        THEN RaiseNotInitialized([op |-> "line"])
        ELSE Draw(Paint(gfx.fbCells, {c \in Cells : OnSegment(c, l[1], l[2], l[3], l[4])}, color),
                  [op |-> "line", init |-> TRUE, raised |-> FALSE])
    /\ UNCHANGED <<bmpVars, codec, music, game>>

GfxHline ==
    /\ \E a \in Spans, color \in PixelColors :
        IF ~gfx.initialized
        THEN RaiseNotInitialized([op |-> "hline"])
        ELSE Draw(Paint(gfx.fbCells, {c \in Cells : InRect(c, a[1], a[2], a[3], 1)}, color),
                  [op |-> "hline", init |-> TRUE, raised |-> FALSE])
    /\ UNCHANGED <<bmpVars, codec, music, game>>

GfxVline ==
    /\ \E a \in Spans, color \in PixelColors :
        IF ~gfx.initialized
        THEN RaiseNotInitialized([op |-> "vline"])
        ELSE Draw(Paint(gfx.fbCells, {c \in Cells : InRect(c, a[1], a[2], 1, a[3])}, color),
                  [op |-> "vline", init |-> TRUE, raised |-> FALSE])
    /\ UNCHANGED <<bmpVars, codec, music, game>>

GfxRect ==
    /\ \E a \in Rects, color \in PixelColors, fill \in BOOLEAN :
        IF ~gfx.initialized
        THEN RaiseNotInitialized([op |-> "rect"])
        ELSE Draw(Paint(gfx.fbCells,
                        {c \in Cells : IF fill THEN InRect(c, a[1], a[2], a[3], a[4])
                                                ELSE OnRect(c, a[1], a[2], a[3], a[4])},
                        color),
                  [op |-> "rect", init |-> TRUE, raised |-> FALSE])
    /\ UNCHANGED <<bmpVars, codec, music, game>>

\* circle returns at once for radius <= 0; framebuffer.ellipse and the midpoint
\* fallback draw the same cells for radius 1
GfxCircle ==
    /\ \E a \in Centres, radius \in {0, 1}, color \in PixelColors, fill \in BOOLEAN :
        IF ~gfx.initialized
        THEN RaiseNotInitialized([op |-> "circle"])
        ELSE Draw(IF radius <= 0 THEN gfx.fbCells
                  ELSE Paint(gfx.fbCells, {c \in Cells : OnCircle(c, a[1], a[2], radius, fill)},
                             color),
                  [op |-> "circle", init |-> TRUE, raised |-> FALSE])
    /\ UNCHANGED <<bmpVars, codec, music, game>>

\* text(string, x, y, color, bg_color) for a string of a[3] blanks: the glyphs set
\* no cell, the background rectangle is len(string) * 8 wide and 8 high
GfxText ==
    /\ \E a \in TextArgs, color \in PixelColors, bg \in {Absent, <<RED>>} :
        IF ~gfx.initialized
        THEN RaiseNotInitialized([op |-> "text"])
        ELSE Draw(IF bg = Absent THEN gfx.fbCells
                  ELSE Paint(gfx.fbCells, {c \in Cells : InRect(c, a[1], a[2], a[3] * 8, 8)}, bg[1]),
                  [op |-> "text", init |-> TRUE, raised |-> FALSE])
    /\ UNCHANGED <<bmpVars, codec, music, game>>

(***************************************************************************)
(* M5Graphics.load_bmp: the whole call, with the decode of                 *)
(* load_to_framebuffer computed on the file and the arguments.             *)
(***************************************************************************)
NoDecode == [ok |-> FALSE, calls |-> <<>>]

\* the row loop from row r on; the read of row stop raises OSError
RECURSIVE DecodeRows(_, _, _, _, _, _, _)
DecodeRows(f, l, a, lw, lh, r, stop) ==
    IF r >= lh THEN [ok |-> TRUE, calls |-> <<>>]
    ELSE IF r = stop THEN NoDecode
    ELSE LET data == Read(f, FilePos(l, r), l.row_size)
         IN  IF ShortRead(Len(data), l.row_size) THEN NoDecode
             ELSE LET rest == DecodeRows(f, l, a, lw, lh, r + 1, stop)
                  IN  [ok |-> rest.ok,
                       calls |-> RowCalls(l, a, ReadInto(RowBuffer(l.row_size), data), r, lw)
                                     \o rest.calls]

\* load_to_framebuffer(filename, framebuffer, a.dest_x, a.dest_y, a.max_width,
\* a.max_height) on the file f: what it returns and the pixel calls it makes
Decode(f, a, stop) ==
    LET h == HeaderOutcome(f, 0, NewLoader)
        l0 == h.loader
        palette_entries == PaletteEntries(l0.colors_used)
        palette_data == Read(f, h.pos, palette_entries * 4)
    IN  IF ~h.ok THEN NoDecode
        ELSE IF l0.bits_per_pixel = 8 /\ Len(palette_data) # palette_entries * 4 THEN NoDecode
        ELSE LET l == IF l0.bits_per_pixel = 8
                      THEN [l0 EXCEPT !.palette = BuildPalette(palette_data, palette_entries)]
                      ELSE l0
             IN  DecodeRows(f, l, a, LoadDim(l.width, a.max_width),
                            LoadDim(l.height, a.max_height), 0, stop)

\* the framebuffer after the pixel calls: it ignores a call outside its rectangle
ApplyCalls(cells, cs) ==
    [c \in Cells |->
        LET hits == {i \in DOMAIN cs : cs[i][1] = c[1] /\ cs[i][2] = c[2]}
        IN  IF hits = {} THEN cells[c]
            ELSE cs[CHOOSE i \in hits : \A j \in hits : j <= i][3]]

\* inputs
\* inputs: a white 2x2 image, the same file cut inside its last stored row and
\* with a wrong signature; corners of the display and points on its far edges
WhitePattern == <<255, 255, 255, 255>>
LoadPoints ==
    { <<0, 0>>, <<DISPLAY_WIDTH - 1, DISPLAY_HEIGHT - 1>>, <<DISPLAY_WIDTH, 0>>,
      <<0, DISPLAY_HEIGHT>>, <<DISPLAY_WIDTH, DISPLAY_HEIGHT>> }
LoadBounds == {<<Absent, Absent>>, <<<<1>>, <<1>>>>}
LoadFaults == {"none", "import", "open", "row"}
GfxFiles ==
    { MakeFile(BMP_SIGNATURE, 2, 2, 1, 24, 0, 0, WhitePattern),
      SubSeq(MakeFile(BMP_SIGNATURE, 2, 2, 1, 24, 0, 0, WhitePattern), 1, 69),
      MakeFile(19779, 2, 2, 1, 24, 0, 0, WhitePattern) }

\* max_width = DISPLAY_WIDTH - x and max_height = DISPLAY_HEIGHT - y when not given
LoadBmpArgs(x, y, max_width, max_height) ==
    [dest_x |-> x, dest_y |-> y,
     max_width |-> IF max_width = Absent THEN <<DISPLAY_WIDTH - x>> ELSE max_width,
     max_height |-> IF max_height = Absent THEN <<DISPLAY_HEIGHT - y>> ELSE max_height,
     has_pixel |-> TRUE]

\* what load_bmp decodes for each input: the import of bmp_loader or the open
\* of the file may fail, and the read of the second row may raise OSError
LoadOutcomes ==
    { [x |-> i[2][1], y |-> i[2][2], max_width |-> i[3][1], max_height |-> i[3][2],
       out |-> IF i[4] \in {"import", "open"} THEN NoDecode
               ELSE Decode(i[1], LoadBmpArgs(i[2][1], i[2][2], i[3][1], i[3][2]),
                           IF i[4] = "row" THEN 1 ELSE -1)] :
        i \in GfxFiles \X LoadPoints \X LoadBounds \X LoadFaults }

GfxLoadBmp ==
    /\ \E o \in LoadOutcomes :
        IF ~gfx.initialized
        THEN RaiseNotInitialized([op |-> "load_bmp"])
        ELSE Draw(ApplyCalls(gfx.fbCells, o.out.calls),
                  [op |-> "load_bmp", init |-> TRUE, raised |-> FALSE, x |-> o.x, y |-> o.y,
                   max_width |-> o.max_width, max_height |-> o.max_height,
                   calls |-> o.out.calls, ret |-> o.out.ok])
    /\ UNCHANGED <<bmpVars, codec, music, game>>

InitGfx ==
    /\ BmpIdle
    /\ codec = NoCodec
    /\ gfx = NewGraphics
    /\ music = NewPlayer
    /\ game = NewGame

NextGfx ==
    \/ InitDisplay
    \/ GfxClear
    \/ GfxPixel
    \/ GfxGetPixel
    \/ GfxShow
    \/ GfxLine
    \/ GfxHline
    \/ GfxVline
    \/ GfxRect
    \/ GfxCircle
    \/ GfxText
    \/ GfxLoadBmp

SpecGfx == InitGfx /\ [][NextGfx]_vars

\* C19: on an initialized M5Graphics, pixel(x, y, c) with x outside 0..134 or y
\* outside 0..239 leaves the framebuffer unchanged and raises nothing, pixel with
\* in-range coordinates changes that one cell only, and get_pixel with
\* out-of-range coordinates returns 0.
C19_PixelBounds ==
    (gfx.last.op \in {"pixel", "get_pixel"} /\ gfx.last.init) =>
        LET l == gfx.last
            inside == l.x \in 0..134 /\ l.y \in 0..239
        IN  /\ ~l.raised
            /\ (l.op = "pixel" /\ ~inside) => gfx.fbCells = l.before
            /\ (l.op = "pixel" /\ inside) =>
                   /\ gfx.fbCells[<<l.x, l.y>>] = l.color
                   /\ \A c \in Cells \ {<<l.x, l.y>>} : gfx.fbCells[c] = l.before[c]
            /\ (l.op = "get_pixel" /\ ~inside) => l.ret = 0 /\ gfx.fbCells = l.before

\* pixel(134, 240, WHITE) was ignored on a framebuffer whose last row is RED
C19_Witness ==
    /\ gfx.initialized
    /\ gfx.last.op = "pixel" /\ gfx.last.init /\ ~gfx.last.raised
    /\ gfx.last.x = 134 /\ gfx.last.y = 240 /\ gfx.last.color = WHITE
    /\ gfx.fbCells[<<134, 239>>] = RED
    /\ gfx.fbCells[<<0, 0>>] = WHITE

(***************************************************************************)
(* MusicPlayer (music.py): one thread calls play_note, play_melody or      *)
(* play_dreidel_song, another may call stop.  A string is a sequence of    *)
(* one-character strings; the thread yields where the code sleeps.         *)
(***************************************************************************)
NOTE_FREQUENCIES ==
    [n \in {"C", "C#", "Db", "D", "D#", "Eb", "E", "F", "F#", "Gb", "G", "G#", "Ab",
            "A", "A#", "Bb", "B", "REST"} |->
        CASE n = "C" -> 261
          [] n \in {"C#", "Db"} -> 277
          [] n = "D" -> 294
          [] n \in {"D#", "Eb"} -> 311
          [] n = "E" -> 330
          [] n = "F" -> 349
          [] n \in {"F#", "Gb"} -> 370
          [] n = "G" -> 392
          [] n \in {"G#", "Ab"} -> 415
          [] n = "A" -> 440
          [] n \in {"A#", "Bb"} -> 466
          [] n = "B" -> 494
          [] OTHER -> 0]

\* OCTAVE_MULTIPLIERS.get(octave, 1.0) as numerator and denominator
OctaveMultiplier(octave) ==
    CASE octave = 3 -> <<1, 2>>
      [] octave = 5 -> <<2, 1>>
      [] octave = 6 -> <<4, 1>>
      [] OTHER -> <<1, 1>>

\* str.upper() on the characters the model uses
UpperChar(c) ==
    CASE c = "a" -> "A" [] c = "b" -> "B" [] c = "c" -> "C" [] c = "d" -> "D"
      [] c = "e" -> "E" [] c = "f" -> "F" [] c = "g" -> "G" [] c = "r" -> "R"
      [] c = "s" -> "S" [] c = "t" -> "T" [] c = "x" -> "X"
      [] OTHER -> c

Upper(chars) == [k \in DOMAIN chars |-> UpperChar(chars[k])]

RECURSIVE Str(_)
Str(chars) == IF chars = <<>> THEN "" ELSE chars[1] \o Str(Tail(chars))

\* play_dreidel_song's phrases
SongPhrases ==
    << <<"G", "E", "G", "E", "G", "E">>, <<"E", "G", "G", "F", "E", "D">>,
       <<"D", "F", "D", "F", "D", "F", "D">>, <<"D", "G", "F", "E", "D", "C">> >>

\* the phrases of the game's fallback player, play_music_with_simple_animation
FallbackPhrases ==
    << <<"G", "G", "E", "G", "E", "G", "E">>, <<"E", "G", "G", "F", "E", "D">>,
       <<"D", "F", "D", "F", "D", "F", "D">>, <<"D", "G", "F", "E", "D", "C">> >>

\* a list element that has no upper(): play_note raises AttributeError on it
NotAString == <<"None">>

\* inputs
Tempos == {250, 600}
Octaves == {3, 4, 5, 6, 7}
NoteArgs ==
    { <<"C">>, <<"C", "#">>, <<"D", "b">>, <<"E", "b">>, <<"G", "b">>, <<"A", "b">>,
      <<"B", "b">>, <<"B">>, <<"g">>, <<"R", "E", "S", "T">>, <<"r", "e", "s", "t">>,
      <<"X">> }
Melodies ==
    { [kind |-> "str", notes |-> <<"C", "#", " ", "D", "b">>],
      [kind |-> "str", notes |-> <<"B", "b", "A">>],
      [kind |-> "str", notes |-> <<>>],
      [kind |-> "list", notes |-> << <<"G">>, <<"R", "E", "S", "T">>, <<"E", "b">> >>],
      [kind |-> "list", notes |-> << <<"G">>, NotAString, <<"E">> >>] }

\* a new call of the player: its record of notes, names and time starts empty
Begin(call) ==
    [music EXCEPT !.call = call, !.stopped = FALSE, !.p = 0, !.kind = "str",
                  !.notes = <<>>, !.i = 0, !.note = <<>>, !.dur = 0, !.octave = 0,
                  !.played = <<>>, !.unknown = <<>>, !.clock = 0,
                  !.stopLen = 0, !.raised = FALSE]

CallPlayNote ==
    /\ music.pc = "idle"
    /\ \E note \in NoteArgs, octave \in Octaves :
        music' = [Begin([fn |-> "play_note", note |-> note, octave |-> octave])
                    EXCEPT !.note = note, !.dur = 250, !.octave = octave, !.pc = "note_on"]
    /\ UNCHANGED <<bmpVars, codec, gfx, game>>

\* play_melody sets _playing before it looks at the notes
CallPlayMelody ==
    /\ music.pc = "idle"
    /\ \E m \in Melodies, octave \in {4, 5} :
        music' = [Begin([fn |-> "play_melody", melody |-> m, octave |-> octave])
                    EXCEPT !.kind = m.kind, !.notes = m.notes, !.i = 1, !.dur = 400,
                           !.octave = octave, !.playing = TRUE, !.pc = "melody_loop"]
    /\ UNCHANGED <<bmpVars, codec, gfx, game>>

\* play_dreidel_song up to the end of its first sleep
StartSong(tempo) ==
    [Begin([fn |-> "play_dreidel_song", tempo |-> tempo])
        EXCEPT !.duty = 0, !.clock = 100, !.dur = tempo, !.octave = 4,
               !.p = 1, !.pc = "song_phrase"]

CallDreidelSong ==
    /\ music.pc = "idle"
    /\ \E tempo \in Tempos : music' = StartSong(tempo)
    /\ UNCHANGED <<bmpVars, codec, gfx, game>>

\* the loop over the phrases: play_melody(phrase, tempo, octave=4), or the ending
SongPhrase ==
    /\ music.pc = "song_phrase"
    /\ IF music.p <= Len(SongPhrases)
       THEN music' = [music EXCEPT !.kind = "str", !.notes = SongPhrases[music.p], !.i = 1,
                                   !.playing = TRUE, !.pc = "melody_loop"]
       ELSE music' = [music EXCEPT !.clock = @ + 100, !.duty = 0, !.pc = "idle"]
    /\ UNCHANGED <<bmpVars, codec, gfx, game>>

\* one test of the loop of play_melody, up to the call of play_note
MelodyLoop ==
    /\ music.pc = "melody_loop"
    /\ IF music.i <= Len(music.notes) /\ music.playing
       THEN IF music.kind = "list"
            THEN music' = [music EXCEPT !.note = music.notes[music.i], !.pc = "note_on"]
            ELSE LET more == /\ music.i + 1 <= Len(music.notes)
                             /\ music.notes[music.i + 1] \in {"#", "b"}
                     note == IF more THEN <<music.notes[music.i], music.notes[music.i + 1]>>
                                     ELSE <<music.notes[music.i]>>
                     j == IF more THEN music.i + 1 ELSE music.i
                 IN  IF note = <<" ">>
                     THEN music' = [music EXCEPT !.note = note, !.i = j + 1]
                     ELSE music' = [music EXCEPT !.note = note, !.i = j, !.pc = "note_on"]
       ELSE music' = [music EXCEPT !.pc = "melody_finally"]
    /\ UNCHANGED <<bmpVars, codec, gfx, game>>

\* where play_note returns to
AfterNote(m) ==
    IF m.call.fn = "play_note"
    THEN [m EXCEPT !.pc = "idle"]
    ELSE [m EXCEPT !.i = @ + 1, !.pc = "melody_loop"]

\* buzzer.duty(0)
Silent_StillOn(m) == m

Silent(m) == [m EXCEPT !.duty = 0]

\* play_note up to the end of its first sleep, or its early return, or the
\* exception of note.upper(), which leaves through the finally clause of play_melody
NoteOn ==
    /\ music.pc = "note_on"
    /\ LET key == Str(Upper(music.note))
       IN  IF music.note = NotAString
           THEN music' = [music EXCEPT !.raised = TRUE,
                             !.pc = IF music.call.fn = "play_note" THEN "idle"
                                                                   ELSE "melody_finally"]
           ELSE IF key \notin DOMAIN NOTE_FREQUENCIES
           THEN music' = AfterNote([music EXCEPT !.unknown = Append(@, Str(music.note))])
           ELSE LET table == NOTE_FREQUENCIES[key]
                    mul == OctaveMultiplier(music.octave)
                    freq == Trunc(table * mul[1], mul[2])
                IN  music' = [music EXCEPT
                        !.freq = IF table > 0 THEN freq ELSE @,
                        !.duty = IF table > 0 THEN 512 ELSE 0,
                        !.played = Append(@, [note |-> Str(music.note),
                                              freq |-> IF table > 0 THEN freq ELSE 0,
                                              phrase |-> music.p]),
                        !.clock = @ + music.dur,
                        !.pc = "note_off"]
    /\ UNCHANGED <<bmpVars, codec, gfx, game>>

\* the rest of play_note: silence and the pause between notes
NoteOff ==
    /\ music.pc = "note_off"
    /\ music' = AfterNote([Silent(music) EXCEPT !.clock = @ + 50])
    /\ UNCHANGED <<bmpVars, codec, gfx, game>>

\* the finally clause of play_melody and, in the song, the pause after the phrase
MelodyFinally ==
    /\ music.pc = "melody_finally"
    /\ IF music.call.fn = "play_melody"
       THEN music' = [music EXCEPT !.playing = FALSE, !.duty = 0, !.pc = "idle"]
       ELSE music' = [music EXCEPT !.playing = FALSE, !.duty = 0,
                                   !.clock = IF music.p < Len(SongPhrases) THEN @ + 200 ELSE @,
                                   !.p = @ + 1, !.pc = "song_phrase"]
    /\ UNCHANGED <<bmpVars, codec, gfx, game>>

\* stop(), called by another thread
Stop ==
    /\ music' = [music EXCEPT !.playing = FALSE, !.duty = 0,
                              !.stopped = @ \/ music.pc # "idle",
                              !.stopLen = IF music.stopped \/ music.pc = "idle" THEN @
                                          ELSE Len(music.played)
                                               + (IF music.pc = "note_on" THEN 1 ELSE 0)]
    /\ UNCHANGED <<bmpVars, codec, gfx, game>>

InitMusic ==
    /\ BmpIdle
    /\ codec = NoCodec
    /\ gfx = NewGraphics
    /\ music = NewPlayer
    /\ game = NewGame

NextMusic ==
    \/ CallPlayNote
    \/ CallPlayMelody
    \/ CallDreidelSong
    \/ SongPhrase
    \/ MelodyLoop
    \/ NoteOn
    \/ NoteOff
    \/ MelodyFinally
    \/ Stop

SpecMusic == InitMusic /\ [][NextMusic]_vars

RECURSIVE Flatten(_)
Flatten(phrases) == IF phrases = <<>> THEN <<>> ELSE phrases[1] \o Flatten(Tail(phrases))

PlayedNotes == [k \in DOMAIN music.played |-> music.played[k].note]
PlayedIn(ph) == Cardinality({k \in DOMAIN music.played : music.played[k].phrase = ph})

SongFinished ==
    music.pc = "idle" /\ music.call.fn = "play_dreidel_song" /\ ~music.stopped

\* C20 as stated: a play_dreidel_song call that ran to its end undisturbed played,
\* in order, exactly the 26 notes GGEGEGE EGGFED DFDFDFD DGFEDC in phrases of 7, 6,
\* 7 and 6 notes, the sequence of the game's fallback player.
C20_SongAsDocumented ==
    SongFinished =>
        /\ Len(music.played) = 26
        /\ PlayedNotes = <<"G", "G", "E", "G", "E", "G", "E", "E", "G", "G", "F", "E", "D",
                           "D", "F", "D", "F", "D", "F", "D", "D", "G", "F", "E", "D", "C">>
        /\ PlayedNotes = Flatten(FallbackPhrases)
        /\ <<PlayedIn(1), PlayedIn(2), PlayedIn(3), PlayedIn(4)>> = <<7, 6, 7, 6>>

\* C21 as stated: once stop() has run during a play_melody or play_dreidel_song
\* call, that call starts no note beyond the one sounding or already entered,
\* and outside that note the buzzer duty is 0.
C21_StopStopsMusic ==
    (music.stopped /\ music.call.fn \in {"play_melody", "play_dreidel_song"}) =>
        /\ Len(music.played) <= music.stopLen
        /\ music.pc # "note_off" => music.duty = 0

\* C22 as stated: play_note with a name of the frequency table drives the buzzer
\* at the table frequency times the octave multiplier, and no name of the table,
\* flats included, is ever reported as unknown by play_note or play_melody.
C22_TableNotesPlayable ==
    /\ \A k \in DOMAIN music.unknown : music.unknown[k] \notin DOMAIN NOTE_FREQUENCIES
    /\ (/\ music.pc = "idle" /\ music.call.fn = "play_note"
        /\ Str(music.call.note) \in DOMAIN NOTE_FREQUENCIES) =>
            /\ Len(music.played) = 1
            /\ music.played[1].freq =
                   Trunc(NOTE_FREQUENCIES[Str(music.call.note)]
                             * OctaveMultiplier(music.call.octave)[1],
                         OctaveMultiplier(music.call.octave)[2])

\* C28: with one thread using the player (no stop() during a call) the buzzer duty
\* is 0 whenever no play_note call is sounding a note, and when play_melody has
\* returned or raised, _playing is false and the duty is 0.
C28_SilentWhenIdle ==
    ~music.stopped =>
        /\ music.pc # "note_off" => music.duty = 0
        /\ (music.pc = "idle" /\ music.call.fn = "play_melody") =>
               ~music.playing /\ music.duty = 0

\* play_melody raised out of its list loop after one note, and the buzzer is silent
C28_Witness ==
    /\ music.pc = "idle" /\ music.call.fn = "play_melody" /\ ~music.stopped
    /\ music.raised /\ Len(music.played) = 1
    /\ ~music.playing /\ music.duty = 0

\* C25 as stated: while the file does not change during the decode, the offsets
\* of the row reads strictly decrease with the row index, a short row read
\* happens on the first row read only (destination row 0), and a decode that
\* stops on it has written no pixel.
C25_StrictlyDecreasingOffsets ==
    (op = "load" /\ ~fileChanged) =>
        /\ \A i, j \in DOMAIN reads : i < j => reads[j][2] < reads[i][2]
        /\ \A i \in DOMAIN reads :
              Len(reads[i][4]) # reads[i][3] =>
                  i = 1 /\ reads[i][1] = 0 /\ calls = <<>>

\* C25 amended: while the file does not change during the decode, the offsets of
\* the row reads never increase with the row index and strictly decrease when
\* the row size is positive; a short row read happens on the first row read only
\* (destination row 0), and a decode that stops on it has written no pixel.
C25_ShortReadOnlyFirstRow ==
    (op = "load" /\ ~fileChanged) =>
        /\ \A i, j \in DOMAIN reads :
              i < j => /\ reads[j][2] <= reads[i][2]
                       /\ loader.row_size > 0 => reads[j][2] < reads[i][2]
        /\ \A i \in DOMAIN reads :
              Len(reads[i][4]) # reads[i][3] =>
                  /\ i = 1 /\ reads[i][1] = 0 /\ calls = <<>>
                  /\ pc = "done" /\ result = "False"

\* a two-row image cut inside its last stored row: the first read is short
C25_Witness ==
    /\ op = "load" /\ ~fileChanged /\ pc = "done" /\ result = "False"
    /\ args.has_pixel /\ load_height = 2 /\ load_width = 2
    /\ Len(reads) = 1 /\ reads[1][1] = 0
    /\ Len(reads[1][4]) < loader.row_size /\ Len(reads[1][4]) > 0
    /\ calls = <<>>

\* C26 as stated: load_bmp(filename, x, y) without max_width and max_height, for
\* x in 0..135 and y in 0..240, hands the framebuffer's pixel setter only
\* coordinates inside 0..134 by 0..239.
C26_LoadBmpInsideDisplay ==
    (/\ gfx.last.op = "load_bmp" /\ gfx.last.init
     /\ gfx.last.max_width = Absent /\ gfx.last.max_height = Absent
     /\ gfx.last.x \in 0..135 /\ gfx.last.y \in 0..240) =>
        \A i \in DOMAIN gfx.last.calls :
            gfx.last.calls[i][1] \in 0..134 /\ gfx.last.calls[i][2] \in 0..239

GuardedOps ==
    {"clear", "show", "pixel", "get_pixel", "line", "hline", "vline", "rect", "circle",
     "text", "load_bmp"}

C29_Complete == gfx.initialized => gfx.display /\ gfx.buffer /\ gfx.framebuffer

C29_Step ==
    /\ (gfx'.last.op \in GuardedOps /\ ~gfx.initialized) =>
           /\ gfx'.last.raised
           /\ gfx' = [gfx EXCEPT !.last = gfx'.last]
    /\ (gfx'.last.op = "init_display" /\ ~gfx.initialized /\ ~gfx'.last.ret) =>
           ~gfx'.initialized
    /\ (gfx'.initialized /\ ~gfx.initialized) =>
           /\ gfx'.last.op = "init_display" /\ gfx'.last.ret
           /\ gfx'.display /\ gfx'.buffer /\ gfx'.framebuffer /\ gfx'.shared

\* C29: M5Graphics starts uninitialized; _initialized implies that display,
\* buffer and framebuffer are set, and becomes true only in an init_display call
\* that completed every step and returned True; while uninitialized, clear,
\* show, pixel, get_pixel, line, hline, vline, rect, circle, text and load_bmp
\* raise RuntimeError and change nothing, and a failed init_display returns
\* False and leaves the instance uninitialized.
C29_UninitializedRaises ==
    /\ ~gfx.initialized
    /\ []C29_Complete
    /\ [][C29_Step]_vars

\* after an init_display that failed in display.init(), load_bmp raised
C29_Witness ==
    /\ ~gfx.initialized /\ gfx.display /\ ~gfx.buffer /\ ~gfx.framebuffer
    /\ gfx.last.op = "load_bmp" /\ gfx.last.raised /\ ~gfx.last.init
    /\ gfx.fbCells = ZeroCells

(***************************************************************************)
(* DreidlGame.detect_button_press (dreidel_game.py and 8-bit_dreidel.py):  *)
(* calls at arbitrary times.  time.ticks_ms() wraps at TICKS_PERIOD and    *)
(* time.ticks_diff() is the signed difference modulo that period.          *)
(***************************************************************************)
TICKS_PERIOD == 1073741824
BUTTON_INTERVAL == 3000
DEBOUNCE == 200

ticks_ms(t) == t % TICKS_PERIOD

ticks_diff(a, b) ==
    ((a - b + TICKS_PERIOD \div 2) % TICKS_PERIOD) - TICKS_PERIOD \div 2

\* TooSoon with the debounce time as the interval
TooSoon_DebounceOnly(current_time, last_button_time) ==
    ticks_diff(current_time, last_button_time) < DEBOUNCE

\* the test that makes detect_button_press return False at once
TooSoon(current_time, last_button_time) ==
    ticks_diff(current_time, last_button_time) < BUTTON_INTERVAL

\* inputs: the times that pass between two calls, how many times time passes
\* and the latest time considered (the ticks wrap once before it)
MaxAdvances == 5
Delays == {50, 2800, 3000, TICKS_PERIOD \div 2}
MaxNow == TICKS_PERIOD + TICKS_PERIOD \div 2

Elapse ==
    /\ game.advances < MaxAdvances
    /\ \E d \in Delays :
        /\ d <= MaxNow - game.now
        /\ game' = [game EXCEPT !.now = @ + d, !.advances = @ + 1]
    /\ UNCHANGED <<bmpVars, codec, gfx, music>>

\* one call; level is what button_a.value() returns if it is read
DetectButtonPress ==
    /\ \E level \in {0, 1} :
        LET current_time == ticks_ms(game.now)
            call == [at |-> game.now, current_time |-> current_time, level |-> level,
                     before |-> game.last_button_time]
        IN  IF TooSoon(current_time, game.last_button_time)
            THEN game' = [game EXCEPT !.press =
                             call @@ [sampled |-> FALSE, ret |-> FALSE]]
            ELSE IF level = 0
            THEN game' = [game EXCEPT !.last_button_time = current_time,
                                      !.now = @ + DEBOUNCE,
                                      !.accepted = Append(@, game.now),
                                      !.press = call @@ [sampled |-> TRUE, ret |-> TRUE]]
            ELSE game' = [game EXCEPT !.press =
                             call @@ [sampled |-> TRUE, ret |-> FALSE]]
    /\ UNCHANGED <<bmpVars, codec, gfx, music>>

InitButton ==
    /\ BmpIdle
    /\ codec = NoCodec
    /\ gfx = NewGraphics
    /\ music = NewPlayer
    /\ game = NewGame

NextButton ==
    \/ Elapse
    \/ DetectButtonPress

SpecButton == InitButton /\ [][NextButton]_vars

\* C24: detect_button_press returns True only when the button reads low and at
\* least 3000 ms by ticks have passed since the previous accepted press, so two
\* accepted presses are at least 3000 ms apart; an earlier call returns False
\* without reading the button and without changing last_button_time, which
\* changes on an accepted press only.
C24_RateLimited ==
    /\ \A i \in DOMAIN game.accepted :
          i > 1 => game.accepted[i] - game.accepted[i - 1] >= 3000
    /\ game.press # NoPress =>
          LET c == game.press
              elapsed == ticks_diff(c.current_time, c.before)
          IN  /\ c.ret => c.sampled /\ c.level = 0 /\ elapsed >= 3000
              /\ elapsed < 3000 =>
                     ~c.ret /\ ~c.sampled /\ game.last_button_time = c.before
              /\ game.last_button_time # c.before => c.ret
              /\ c.ret => game.last_button_time = c.current_time

\* a press 3000 ms after the accepted one is accepted, one 2850 ms after was not
C24_Witness ==
    /\ Len(game.accepted) = 2
    /\ game.accepted[2] - game.accepted[1] = 3000
    /\ game.press # NoPress /\ game.press.ret /\ game.press.level = 0

\* a press 250 ms after an accepted one was refused without reading the button
C24_RefusedWitness ==
    /\ Len(game.accepted) = 1
    /\ game.press # NoPress /\ ~game.press.ret /\ ~game.press.sampled
    /\ game.press.level = 0
    /\ game.press.at - game.accepted[1] = 250

(***************************************************************************)
(* One spin of the game: DreidlGame.spin_dreidel, called by run_game after *)
(* an accepted press, and show_result after it.  The main thread runs      *)
(* spin_with_music; the thread it starts runs play_dreidel_song on the     *)
(* game's MusicPlayer, whose steps are the actions of the player above.    *)
(* Only the programmed sleeps take time: game.clock and music.clock are    *)
(* the times since the start of the spin at which the main thread and the  *)
(* song thread do their next step, and the thread that is due first runs.  *)
(* What the frames draw is not followed.                                   *)
(***************************************************************************)
Variants == {"dreidel_game", "8-bit_dreidel"}

\* the duration handed to show_spinning_animation_timed, cut short
AnimationDuration_Short(variant) == IF variant = "dreidel_game" THEN 8000 ELSE 7600

\* the duration handed to show_spinning_animation_timed
AnimationDuration(variant) == IF variant = "dreidel_game" THEN 9000 ELSE 8600

\* the sleep that ends a frame of the animation
FrameSleep(variant) == IF variant = "dreidel_game" THEN 300 ELSE 150

\* what the try block of spin_with_music does before the animation
ThreadOutcomes == {"started", "ImportError", "OSError"}

SongClock == IF game.thread = "started" THEN 0 ELSE music.clock
SongOver == game.thread = "running" /\ music.pc = "idle"
MainMayStep == game.thread = "none" \/ SongOver \/ game.clock <= SongClock
SongMayStep == game.pc = "done" \/ SongClock <= game.clock

\* spin_dreidel and spin_with_music up to the call of the animation, or up to
\* the except clause when there is no _thread module or no thread can be started
SpinWithMusic ==
    /\ game.pc = "idle"
    /\ \E outcome \in ThreadOutcomes :
        game' = [game EXCEPT !.thread = IF outcome = "started" THEN "started" ELSE "none",
                             !.pc = IF outcome = "started" THEN "animation" ELSE "fallback",
                             !.clock = 0, !.phrase = 1, !.note = 1]
    /\ UNCHANGED <<bmpVars, codec, gfx, music>>

\* the new thread: DreidlGame.play_dreidel_song calls play_dreidel_song(250)
SongThread ==
    /\ game.thread = "started"
    /\ SongMayStep
    /\ music' = StartSong(250)
    /\ game' = [game EXCEPT !.thread = "running"]
    /\ UNCHANGED <<bmpVars, codec, gfx>>

SongStep ==
    /\ game.thread = "running"
    /\ SongMayStep
    /\ \/ SongPhrase
       \/ MelodyLoop
       \/ NoteOn
       \/ NoteOff
       \/ MelodyFinally

\* one test of the loop of show_spinning_animation_timed and the frame after it;
\* when the loop ends, spin_with_music and spin_dreidel return
AnimationFrame ==
    /\ game.pc = "animation"
    /\ MainMayStep
    /\ IF game.clock < AnimationDuration(game.variant)
       THEN game' = [game EXCEPT !.clock = @ + FrameSleep(game.variant)]
       ELSE game' = [game EXCEPT !.pc = "show_result"]
    /\ UNCHANGED <<bmpVars, codec, gfx, music>>

\* a frame raises (the display fails, memory runs out, Ctrl-C is pressed); the
\* bare except of spin_with_music catches whatever it is
AnimationRaises ==
    /\ game.pc = "animation"
    /\ MainMayStep
    /\ game.clock < AnimationDuration(game.variant)
    /\ game' = [game EXCEPT !.pc = "fallback", !.phrase = 1, !.note = 1]
    /\ UNCHANGED <<bmpVars, codec, gfx, music>>

\* play_music_with_simple_animation: a frame, and play_note(note, 250, 4) on the
\* main thread up to the end of its first sleep
FallbackNoteOn ==
    /\ game.pc = "fallback"
    /\ MainMayStep
    /\ LET note == FallbackPhrases[game.phrase][game.note]
           mul == OctaveMultiplier(4)
           freq == Trunc(NOTE_FREQUENCIES[Str(Upper(<<note>>))] * mul[1], mul[2])
       IN  music' = [music EXCEPT !.freq = freq, !.duty = 512]
    /\ game' = [game EXCEPT !.clock = @ + 250, !.fallback = @ + 1, !.pc = "fallback_off"]
    /\ UNCHANGED <<bmpVars, codec, gfx>>

\* the rest of that play_note, and the pause after a phrase; after the last
\* note spin_with_music and spin_dreidel return
FallbackNoteOff ==
    /\ game.pc = "fallback_off"
    /\ MainMayStep
    /\ music' = Silent(music)
    /\ LET phrase == FallbackPhrases[game.phrase]
       IN  IF game.note < Len(phrase)
           THEN game' = [game EXCEPT !.clock = @ + 50, !.note = @ + 1, !.pc = "fallback"]
           ELSE IF game.phrase < Len(FallbackPhrases)
           THEN game' = [game EXCEPT !.clock = @ + 50 + 200, !.phrase = @ + 1,
                                     !.note = 1, !.pc = "fallback"]
           ELSE game' = [game EXCEPT !.clock = @ + 50, !.pc = "show_result"]
    /\ UNCHANGED <<bmpVars, codec, gfx>>

\* run_game calls show_result
ShowResult ==
    /\ game.pc = "show_result"
    /\ MainMayStep
    /\ game' = [game EXCEPT !.shown = TRUE, !.pc = "done"]
    /\ UNCHANGED <<bmpVars, codec, gfx, music>>

InitGame ==
    /\ BmpIdle
    /\ codec = NoCodec
    /\ gfx = NewGraphics
    /\ music = NewPlayer
    /\ \E variant \in Variants : game = [NewGame EXCEPT !.variant = variant]

NextGame ==
    \/ SpinWithMusic
    \/ SongThread
    \/ SongStep
    \/ AnimationFrame
    \/ AnimationRaises
    \/ FallbackNoteOn
    \/ FallbackNoteOff
    \/ ShowResult

SpecGame == InitGame /\ [][NextGame]_vars

\* C23: counting the programmed sleeps only, the song thread started by
\* spin_with_music has finished when the animation of 9000 ms (dreidel_game)
\* or 8600 ms (8-bit_dreidel) ends, so that from the call of show_result on
\* the song is over and sounds no note.
C23_SongOverBeforeResult ==
    (game.pc \in {"show_result", "done"} /\ game.thread # "none") =>
        /\ SongOver
        /\ SongFinished
        /\ music.clock <= game.clock
        /\ music.duty = 0

\* the result of 8-bit_dreidel is shown at 8700 ms, the song ended at 8300 ms
C23_Witness ==
    /\ game.shown /\ game.variant = "8-bit_dreidel" /\ game.fallback = 0
    /\ game.clock = 8700
    /\ SongOver /\ music.clock = 8300

\* C27: within one spin_with_music call the fallback player runs only if the
\* song thread was not started, so that one thread at most drives the buzzer.
C27_OneBuzzerDriver ==
    game.pc \in {"fallback", "fallback_off"} => game.thread = "none"

====
